---- MODULE Spec2Model ----
(***************************************************************************)
(* Model of the issue triage session of src/src/App.tsx: the React state   *)
(* of App, the operator's handlers, and the asynchronous closures          *)
(* (handleFetchIssues, processCurrentIssue, generateSummaryForIssue,       *)
(* fetchGeminiSummary) that are suspended on a network call or a timer.    *)
(*                                                                         *)
(* State updates made in one synchronous continuation are batched into one *)
(* render (React 18 automatic batching), and the effect of lines 411-444   *)
(* runs right after the render that changed one of its dependencies, so    *)
(* each action below is a handler or a continuation together with the      *)
(* effect run it triggers.                                                 *)
(***************************************************************************)
EXTENDS Integers, Sequences, FiniteSets, TLC

VARIABLES
    step,            \* useState step: "input" | "triage" | "complete"
    issues,          \* useState issues: sequence of issue records
    currentIndex,    \* useState currentIndex (0-based, as in the source)
    currentSummary,  \* useState currentSummary
    isSummarizing,   \* useState isSummarizing
    isCheckingPr,    \* useState isCheckingPr
    summaryError,    \* useState summaryError (NULL or the placeholder)
    scores,          \* useState scores: issue number -> ScoreEntry
    loading,         \* useState loading (a search request is in flight)
    error,           \* useState error (NULL or a message)
    currentRating,   \* useState currentRating (the draft)
    pipes,           \* suspended processCurrentIssue / generateSummaryForIssue closures
    sess,            \* history: number of sessions started (successful fetches)
    skippedIdx,      \* history: indices of this session whose own PR check returned true
    commitLog,       \* history: the entries handleNext committed in this session, in order
    errorFrom,       \* history: the throw that set summaryError ("none" while it is null)
    verdict,         \* result of the last isValidScore evaluation of the validator run
    csv              \* rows of the file last downloaded (<<>>: none since Start New Session)

vars == <<step, issues, currentIndex, currentSummary, isSummarizing, isCheckingPr,
          summaryError, scores, loading, error,
          currentRating, pipes, sess, skippedIdx, commitLog, errorFrom, verdict, csv>>

(***************************************************************************)
(* Bounds of the model.                                                    *)
(***************************************************************************)
MaxIssues == 2      \* longest batch a search response carries
MaxNum == 2         \* issue numbers are 1..MaxNum
MaxSessions == 2    \* sessions (successful fetches) per run
MaxInFlight == 2    \* suspended pipeline closures at one time

(***************************************************************************)
(* Program constants.                                                      *)
(***************************************************************************)
TARGET_ISSUE_COUNT == 15
maxRetries == 3
\* the delays with the first two exchanged
delays_swapped == <<2000, 1000, 4000>>

delays == <<1000, 2000, 4000>>
ISSUE_TYPES == {"feat", "fix", "docs", "style", "refactor", "perf", "test",
                "ci", "build", "chore", "revert"}
RATING_OPTIONS == {"x", "1", "2", "3", "4", "5"}
validValues == {"1", "2", "3", "4", "5"}

NULL == "null"
SUMMARY_ERROR == "Failed to generate summary. You may need to read the raw issue."
SUMMARY_FALLBACK == "Could not generate summary."
CSV_HEADERS == <<"Issue Number", "Title", "URL", "Type", "Ambiguity", "Scale", "Novelty",
                 "Is Scored (Not X)">>
NoFile == <<>>
EMPTY_RATING == [ambiguity |-> "", scale |-> "", novelty |-> "", type |-> ""]
NoScores == [n \in {} |-> EMPTY_RATING]

(***************************************************************************)
(* Data: issues, ratings and the responses the network can give.           *)
(***************************************************************************)
\* issue n of the repository; odd-numbered issues carry a double quote in the title
TitleOf(n) == IF n % 2 = 1 THEN <<"q", "\"">> ELSE <<"a">>
MkIssue(n) == [number |-> n, title |-> TitleOf(n), html_url |-> <<"html_url", n>>]
IssueSet == {MkIssue(n) : n \in 1..MaxNum}
SeqsUpTo(S, n) == UNION {[1..k -> S] : k \in 0..n}

\* data.items of a successful search response (possibly empty): the search is sorted by
\* creation time ascending, and issue numbers as a rule grow with creation time
ItemLists == {l \in SeqsUpTo(IssueSet, MaxIssues) :
                 \A i \in 1..(Len(l) - 1) : l[i].number < l[i + 1].number}
\* item lists out of number order: an issue transferred from another repository keeps
\* its creation time and gets a new, higher number
UnorderedLists == {l \in SeqsUpTo(IssueSet, MaxIssues) :
                      \E i \in 1..(Len(l) - 1) : l[i].number > l[i + 1].number}
\* item lists that repeat an issue number (the one way a number is committed twice in
\* a session): a full ascending list followed by its last item once more
RepeatLists == {Append(l, l[Len(l)]) : l \in {x \in ItemLists : Len(x) = MaxIssues}}
\* the search responses over the item lists ls: a status with its items, or a
\* transport / JSON failure
SearchResponsesOf(ls) ==
    {[kind |-> "http", status |-> 200, items |-> l] : l \in ls \cup {<<>>}}
    \cup {[kind |-> "http", status |-> s, items |-> <<>>] : s \in {403, 404, 422, 500}}
    \cup {[kind |-> k, status |-> 0, items |-> <<>>] : k \in {"transport", "badjson"}}
SearchResponses == SearchResponsesOf(ItemLists)

\* repository URLs the operator may type, as sequences of characters
RepoUrls == {<<"n">>, <<"o", "/", "r">>, <<"o", "/", "r", "/">>, <<"/">>}

\* timeline events: {event, source.issue.pull_request present, source.issue.state}
Ev(e, pr, st) == [event |-> e, pull_request |-> pr, state |-> st]
TimelineResponses ==
    {[kind |-> "ok", events |-> es] :
        es \in {<<>>,
                <<Ev("cross-referenced", TRUE, "open")>>,
                <<Ev("commented", TRUE, "open"), Ev("cross-referenced", TRUE, "closed")>>,
                <<Ev("cross-referenced", FALSE, "open")>>,
                <<Ev("labeled", FALSE, "open"), Ev("cross-referenced", TRUE, "open")>>}}
    \cup {[kind |-> k, events |-> <<>>] : k \in {"http", "transport", "badjson"}}

\* comments: {user.login (or a null user), body}
Cm(login, body) == [login |-> login, body |-> body]
CommentsResponses ==
    {[kind |-> "ok", comments |-> cs] :
        cs \in {<<>>, <<Cm("u", "c")>>, <<Cm(NULL, "c")>>}}
    \cup {[kind |-> k, comments |-> <<>>] : k \in {"http", "transport", "badjson"}}

\* generateContent responses: ok with candidates[0]...text ("" when missing)
GeminiResponses ==
    {[kind |-> "ok", text |-> t] : t \in {"S", ""}}
    \cup {[kind |-> k, text |-> ""] : k \in {"http", "transport", "badjson"}}

\* values the operator picks in the model: "x" or "1" for ambiguity, "1" for scale and
\* novelty, "fix" for the type
RateInputs == {"x", "1"}
TypeInputs == {"fix"}

(***************************************************************************)
(* Pure helpers of the source.                                             *)
(***************************************************************************)
\* url.replace(/\/$/, "")
stripTrailingSlash(url) ==
    IF Len(url) > 0 /\ url[Len(url)] = "/" THEN SubSeq(url, 1, Len(url) - 1) ELSE url

\* cleanUrl.split("/"): the segments between the slashes
RECURSIVE split(_)
split(s) ==
    IF \A i \in 1..Len(s) : s[i] # "/" THEN <<s>>
    ELSE LET k == CHOOSE i \in 1..Len(s) : s[i] = "/" /\ \A j \in 1..(i - 1) : s[j] # "/"
         IN  <<SubSeq(s, 1, k - 1)>> \o split(SubSeq(s, k + 1, Len(s)))

\* parseRepoUrl: null when fewer than two segments remain
parseRepoUrl(url) ==
    LET parts == split(stripTrailingSlash(url))
    IN  IF Len(parts) < 2 THEN [ok |-> FALSE, owner |-> <<>>, repo |-> <<>>]
        ELSE [ok |-> TRUE, owner |-> parts[Len(parts) - 1], repo |-> parts[Len(parts)]]

\* isValidScore that forgets the last of its three tests
isValidScore_noNovelty(scoreEntry) ==
    /\ scoreEntry.ambiguity \in validValues
    /\ scoreEntry.scale \in validValues

\* isValidScore: ambiguity, scale and novelty are each one of "1".."5"
isValidScore(scoreEntry) ==
    /\ scoreEntry.ambiguity \in validValues
    /\ scoreEntry.scale \in validValues
    /\ scoreEntry.novelty \in validValues

\* Object.values(sc).filter(isValidScore).length
validCount(sc) == Cardinality({n \in DOMAIN sc : isValidScore(sc[n])})

\* title.replace(/"/g, '""'): every double quote doubled
RECURSIVE escapeQuotes(_)
escapeQuotes(t) ==
    IF t = <<>> THEN <<>>
    ELSE (IF Head(t) = "\"" THEN <<"\"", "\"">> ELSE <<Head(t)>>) \o escapeQuotes(Tail(t))

\* a Title field that is quoted but not escaped
quoteTitle_raw(t) == <<"\"">> \o t \o <<"\"">>

\* the Title field of a row: the escaped title between double quotes
quoteTitle(t) == <<"\"">> \o escapeQuotes(t) \o <<"\"">>

\* one row of the report (line 529-538), as the list of its fields before join(",")
csvRow(e) ==
    <<e.issueNumber, quoteTitle(e.title), e.url, e.type, e.ambiguity, e.scale, e.novelty,
      IF isValidScore(e) THEN "Yes" ELSE "No">>

\* Object.values(sc): the keys of scores are issue numbers, and an object lists its
\* integer-like keys in ascending numeric order, whatever the order of insertion
RECURSIVE ObjectValues(_)
ObjectValues(sc) ==
    IF DOMAIN sc = {} THEN <<>>
    ELSE LET k == CHOOSE n \in DOMAIN sc : \A m \in DOMAIN sc : n <= m
         IN  <<sc[k]>> \o ObjectValues([n \in DOMAIN sc \ {k} |-> sc[n]])

\* csvContent of handleDownloadCSV: the header row, then one row per value, as the
\* list of rows before join("\n")
csvContent(sc) ==
    <<CSV_HEADERS>> \o [i \in 1..Len(ObjectValues(sc)) |-> csvRow(ObjectValues(sc)[i])]

\* isRatingComplete that does not look at the type
isRatingComplete_noType(r) ==
    r.ambiguity # "" /\ r.scale # "" /\ r.novelty # ""

\* isRatingComplete: all four fields of the draft are non-empty
isRatingComplete(r) ==
    r.ambiguity # "" /\ r.scale # "" /\ r.novelty # "" /\ r.type # ""

\* checkForOpenPRs that takes a failed check as an open pull request
checkForOpenPRs_failBlocked(resp) ==
    IF resp.kind # "ok" THEN TRUE
    ELSE \E i \in 1..Len(resp.events) :
            /\ resp.events[i].event = "cross-referenced"
            /\ resp.events[i].pull_request
            /\ resp.events[i].state = "open"

\* checkForOpenPRs: events.some(cross-referenced from an open pull request);
\* a non-ok status and anything thrown inside the try give false
checkForOpenPRs(resp) ==
    IF resp.kind # "ok" THEN FALSE
    ELSE \E i \in 1..Len(resp.events) :
            /\ resp.events[i].event = "cross-referenced"
            /\ resp.events[i].pull_request
            /\ resp.events[i].state = "open"

\* fetchError without the test for an empty list
fetchError_emptyOk(resp) ==
    IF resp.kind = "transport" THEN "Failed to fetch"
    ELSE IF resp.kind = "badjson" THEN "Unexpected token"
    ELSE IF resp.status = 403 THEN "GitHub API Rate Limit exceeded. Please provide a Token."
    ELSE IF resp.status = 404 THEN "Repository not found."
    ELSE IF resp.status = 422 THEN "Validation Failed. Please check the URL."
    ELSE IF resp.status # 200 THEN "GitHub API Error"
    ELSE NULL

\* the message handleFetchIssues ends with for a search response (NULL: success)
fetchError(resp) ==
    IF resp.kind = "transport" THEN "Failed to fetch"
    ELSE IF resp.kind = "badjson" THEN "Unexpected token"
    ELSE IF resp.status = 403 THEN "GitHub API Rate Limit exceeded. Please provide a Token."
    ELSE IF resp.status = 404 THEN "Repository not found."
    ELSE IF resp.status = 422 THEN "Validation Failed. Please check the URL."
    ELSE IF resp.status # 200 THEN "GitHub API Error"
    ELSE IF Len(resp.items) = 0 THEN "No open issues (without linked PRs) found in this repository."
    ELSE NULL

\* the entry handleNext builds from the draft and the current issue
newEntry(rating, issue) ==
    [ambiguity |-> rating.ambiguity, scale |-> rating.scale, novelty |-> rating.novelty,
     type |-> rating.type, issueNumber |-> issue.number, title |-> issue.title,
     url |-> issue.html_url]

\* newScores that keeps the new entry alone
newScores_onlyNew(sc, entry) ==
    [n \in {entry.issueNumber} |-> entry]

\* newScores that keeps an entry already present under the number
newScores_keepFirst(sc, entry) ==
    [n \in DOMAIN sc \cup {entry.issueNumber} |->
        IF n \in DOMAIN sc THEN sc[n] ELSE entry]

\* { ...scores, [number]: entry }
newScores(sc, entry) ==
    [n \in DOMAIN sc \cup {entry.issueNumber} |->
        IF n = entry.issueNumber THEN entry ELSE sc[n]]

\* nextOutcome that finishes only above the target
nextOutcome_aboveTarget(sc, idx, len) ==
    IF validCount(sc) > TARGET_ISSUE_COUNT THEN "target"
    ELSE IF idx < len - 1 THEN "advance"
    ELSE "exhausted"

\* nextOutcome with the two tests of handleNext in the other order
nextOutcome_indexFirst(sc, idx, len) ==
    IF idx < len - 1 THEN "advance"
    ELSE IF validCount(sc) >= TARGET_ISSUE_COUNT THEN "target"
    ELSE "exhausted"

\* what handleNext does after the commit
nextOutcome(sc, idx, len) ==
    IF validCount(sc) >= TARGET_ISSUE_COUNT THEN "target"
    ELSE IF idx < len - 1 THEN "advance"
    ELSE "exhausted"

\* one attempt of fetchGeminiSummary: the value returned, or a throw into the catch
geminiAttempt(resp) ==
    IF resp.kind = "ok"
    THEN [ok |-> TRUE, value |-> IF resp.text # "" THEN resp.text ELSE SUMMARY_FALLBACK]
    ELSE [ok |-> FALSE, value |-> ""]

\* a catch that never rethrows
geminiGivesUp_never(retries) == retries > maxRetries

\* catch of fetchGeminiSummary: rethrow when retries === maxRetries
geminiGivesUp(retries) == retries = maxRetries

\* the text blob generateSummaryForIssue passes to the summarizer
fullText(issue, comments) ==
    [title |-> issue.title,
     comments |-> [i \in 1..Len(comments) |-> <<comments[i].login, comments[i].body>>]]

\* generateSummaryForIssue up to the summarizer call: the comment list it uses, or a
\* throw into its catch (fetch rejected, json() threw, or c.user is null)
commentsOutcome(resp) ==
    IF resp.kind = "http" THEN [ok |-> TRUE, comments |-> <<>>]
    ELSE IF resp.kind # "ok" THEN [ok |-> FALSE, comments |-> <<>>]
    ELSE IF \E i \in 1..Len(resp.comments) : resp.comments[i].login = NULL
         THEN [ok |-> FALSE, comments |-> <<>>]
    ELSE [ok |-> TRUE, comments |-> resp.comments]

(***************************************************************************)
(* Derived state.                                                          *)
(***************************************************************************)
\* the phase of the session: Fetching is Input with the search request in flight
\* (the source never calls setStep("fetching"))
Phase ==
    IF step = "triage" THEN "Triage"
    ELSE IF step = "complete" THEN "Complete"
    ELSE IF loading THEN "Fetching"
    ELSE "Input"

\* renderTriageStep reads issues[currentIndex].title: with no issue at currentIndex
\* the render throws and React unmounts App; its state is then frozen
Crashed == step = "triage" /\ currentIndex >= Len(issues)

\* bound: a step that starts a further closure waits while MaxInFlight are suspended
roomForPipe == Cardinality(pipes) < MaxInFlight

\* a closure that starts with the comments request, without the PR check
newPipe_noCheck(s, idx, iss) ==
    [sess |-> s, idx |-> idx, issue |-> iss[idx + 1], last |-> ~(idx < Len(iss) - 1),
     pc |-> "comments", retries |-> 0, attempts |-> 0, waits |-> <<>>, comments |-> <<>>,
     checkFailed |-> FALSE]

\* the closure the effect starts for index idx of the list iss (checkFailed is history:
\* while the comments request is in flight, whether the PR check before it failed)
newPipe(s, idx, iss) ==
    [sess |-> s, idx |-> idx, issue |-> iss[idx + 1], last |-> ~(idx < Len(iss) - 1),
     pc |-> "pr", retries |-> 0, attempts |-> 0, waits |-> <<>>, comments |-> <<>>,
     checkFailed |-> FALSE]

\* a closure of the session in progress (not of a session ended by exit or new session)
live(p) == p.sess = sess /\ issues # <<>>

\* the effect of lines 411-444, run after a render in which one of currentIndex, step,
\* issues changed: it starts processCurrentIssue when step is triage and
\* issues[currentIndex] exists. ratingH .. pipesH are the values the handler left.
useEffectRun(changed, stepN, issuesN, idxN, sessN, errH, sumH, chkH, pipesH) ==
    IF changed /\ stepN = "triage" /\ idxN < Len(issuesN)
    THEN /\ currentRating' = EMPTY_RATING
         /\ summaryError' = NULL
         /\ errorFrom' = "none"
         /\ currentSummary' = ""
         /\ isCheckingPr' = TRUE
         /\ pipes' = pipesH \cup {newPipe(sessN, idxN, issuesN)}
    ELSE /\ currentRating' = currentRating
         /\ summaryError' = errH
         /\ errorFrom' = IF errH = NULL THEN "none" ELSE errorFrom
         /\ currentSummary' = sumH
         /\ isCheckingPr' = chkH
         /\ pipes' = pipesH

(***************************************************************************)
(* Initial state: App after its first render.                              *)
(***************************************************************************)
Init ==
    /\ step = "input"
    /\ issues = <<>>
    /\ currentIndex = 0
    /\ currentSummary = ""
    /\ isSummarizing = FALSE
    /\ isCheckingPr = FALSE
    /\ summaryError = NULL
    /\ scores = NoScores
    /\ loading = FALSE
    /\ error = NULL
    /\ currentRating = EMPTY_RATING
    /\ pipes = {}
    /\ sess = 0
    /\ skippedIdx = {}
    /\ commitLog = <<>>
    /\ errorFrom = "none"
    /\ verdict = "none"
    /\ csv = NoFile

(***************************************************************************)
(* Input step.                                                             *)
(***************************************************************************)
\* handleFetchIssues up to its await (the button is disabled while loading): an
\* unparsable URL ends it at once, otherwise the search request is in flight
handleFetchIssues(url) ==
    /\ step = "input"
    /\ ~loading
    /\ sess < MaxSessions
    /\ IF parseRepoUrl(url).ok
       THEN /\ error' = NULL
            /\ loading' = TRUE
       ELSE /\ error' = "Invalid GitHub URL. Please use format: https://github.com/owner/repo"
            /\ loading' = FALSE
    /\ UNCHANGED <<step, issues, currentIndex, currentSummary, isSummarizing, isCheckingPr,
                   summaryError, errorFrom, scores, currentRating,
                   pipes, sess, skippedIdx, commitLog, verdict, csv>>

\* handleFetchIssues after its await: the search response arrives
fetchResponse(resp) ==
    /\ loading
    /\ fetchError(resp) = NULL => roomForPipe
    /\ loading' = FALSE
    /\ IF fetchError(resp) # NULL
       THEN /\ error' = fetchError(resp)
            /\ UNCHANGED <<step, issues, currentIndex, currentSummary, isCheckingPr,
                           summaryError, errorFrom, currentRating, pipes, sess, skippedIdx>>
       ELSE /\ error' = error
            /\ issues' = resp.items
            /\ step' = "triage"
            /\ currentIndex' = 0
            /\ sess' = sess + 1
            /\ skippedIdx' = {}
            /\ useEffectRun(TRUE, "triage", resp.items, 0, sess + 1,
                            summaryError, currentSummary, isCheckingPr, pipes)
    /\ UNCHANGED <<isSummarizing, scores, commitLog, verdict, csv>>

(***************************************************************************)
(* Triage step: the operator.                                              *)
(***************************************************************************)
\* RatingInput / TypeSelect onChange: setCurrentRating(prev => ({...prev, field: val}))
setRating(field, val) ==
    /\ step = "triage" /\ ~Crashed
    /\ currentRating' = [currentRating EXCEPT ![field] = val]
    /\ UNCHANGED <<step, issues, currentIndex, currentSummary, isSummarizing, isCheckingPr,
                   summaryError, errorFrom, scores, loading, error,
                   pipes, sess, skippedIdx, commitLog, verdict, csv>>

\* the Next Issue button: disabled={!isRatingComplete || isCheckingPr}
nextEnabled ==
    /\ step = "triage" /\ ~Crashed
    /\ isRatingComplete(currentRating)
    /\ ~isCheckingPr

\* handleNext (lines 485-516): commit the draft, then finish or advance
handleNext ==
    /\ nextEnabled
    /\ LET committed == newScores(scores, newEntry(currentRating, issues[currentIndex + 1]))
           outcome == nextOutcome(committed, currentIndex, Len(issues))
           stepN == IF outcome = "advance" THEN step ELSE "complete"
           idxN == IF outcome = "advance" THEN currentIndex + 1 ELSE currentIndex
       IN  /\ outcome = "advance" => roomForPipe
           /\ scores' = committed
           /\ commitLog' = Append(commitLog, newEntry(currentRating, issues[currentIndex + 1]))
           /\ step' = stepN
           /\ currentIndex' = idxN
           /\ useEffectRun(outcome = "advance", stepN, issues, idxN, sess,
                           summaryError, currentSummary, isCheckingPr, pipes)
    /\ UNCHANGED <<issues, isSummarizing, loading, error, sess, skippedIdx, verdict, csv>>

\* Exit modal onConfirm (lines 681-686): back to input, issues and scores emptied.
\* The modal is opened by the X button of the triage step; showExitModal only gates
\* this handler and is not kept as state.
confirmExit ==
    /\ step = "triage" /\ ~Crashed
    /\ step' = "input"
    /\ issues' = <<>>
    /\ scores' = NoScores
    /\ skippedIdx' = {}
    /\ commitLog' = <<>>
    /\ UNCHANGED <<currentIndex, currentSummary, isSummarizing, isCheckingPr,
                   summaryError, errorFrom, loading, error, currentRating, pipes, sess, verdict, csv>>

\* an early finish that commits the draft of the current issue
confirmFinish_commits ==
    /\ step = "triage" /\ ~Crashed
    /\ step' = "complete"
    /\ scores' = newScores(scores, newEntry(currentRating, issues[currentIndex + 1]))
    /\ UNCHANGED <<issues, currentIndex, currentSummary, isSummarizing, isCheckingPr,
                   summaryError, errorFrom, loading, error, currentRating, pipes, sess,
                   skippedIdx, commitLog, verdict, csv>>

\* Finish modal onConfirm (lines 695-698): straight to complete. The modal is opened
\* by Finish Early & Download; showFinishModal only gates this handler.
confirmFinish ==
    /\ step = "triage" /\ ~Crashed
    /\ step' = "complete"
    /\ UNCHANGED <<issues, currentIndex, currentSummary, isSummarizing, isCheckingPr,
                   summaryError, errorFrom, scores, loading, error, currentRating, pipes, sess,
                   skippedIdx, commitLog, verdict, csv>>

(***************************************************************************)
(* Complete step.                                                          *)
(***************************************************************************)
\* Download CSV Report onClick: handleDownloadCSV (lines 518-557) builds the file from
\* scores and hands it to the browser; no state of App changes, so it is a stuttering
\* step of the session and a step of its own only where the file is observed
\* (SpecExport)
handleDownloadCSV ==
    /\ step = "complete"
    /\ csv' = csvContent(scores)
    /\ UNCHANGED <<step, issues, currentIndex, currentSummary, isSummarizing, isCheckingPr,
                   summaryError, errorFrom, scores, loading, error, currentRating, pipes,
                   sess, skippedIdx, commitLog, verdict>>

\* Start New Session onClick (lines 910-915); the Complete step and its file are left
startNewSession ==
    /\ step = "complete"
    /\ step' = "input"
    /\ issues' = <<>>
    /\ scores' = NoScores
    /\ skippedIdx' = {}
    /\ commitLog' = <<>>
    /\ csv' = NoFile
    /\ UNCHANGED <<currentIndex, currentSummary, isSummarizing, isCheckingPr,
                   summaryError, errorFrom, loading, error, currentRating, pipes, sess, verdict>>

(***************************************************************************)
(* The per-issue pipeline: continuations of the suspended closures. Once   *)
(* App is unmounted (Crashed) they still run, but their state updates are  *)
(* dropped.                                                                *)
(***************************************************************************)
\* processCurrentIssue after await checkForOpenPRs (lines 421-439)
prResponse(p, resp) ==
    /\ p \in pipes /\ p.pc = "pr"
    /\ LET hasOpenPr == checkForOpenPRs(resp)
           rest == pipes \ {p}
           summarizing == rest \cup {[p EXCEPT !.pc = "comments",
                                                !.checkFailed = resp.kind # "ok"]}
       IN  IF Crashed
           THEN /\ pipes' = IF hasOpenPr THEN rest ELSE summarizing
                /\ UNCHANGED <<step, currentIndex, currentSummary, isSummarizing,
                               isCheckingPr, summaryError, errorFrom, currentRating, skippedIdx>>
           ELSE IF hasOpenPr
           THEN LET stepN == IF ~p.last THEN step ELSE "complete"
                    idxN == IF ~p.last THEN currentIndex + 1 ELSE currentIndex
                IN  /\ step' = stepN
                    /\ currentIndex' = idxN
                    /\ skippedIdx' = IF live(p) THEN skippedIdx \cup {p.idx} ELSE skippedIdx
                    /\ useEffectRun(<<stepN, idxN>> # <<step, currentIndex>>, stepN, issues,
                                    idxN, sess, summaryError, currentSummary, FALSE, rest)
                    /\ UNCHANGED isSummarizing
           ELSE \* generateSummaryForIssue up to its first await (lines 447-458)
                /\ isCheckingPr' = FALSE
                /\ isSummarizing' = TRUE
                /\ summaryError' = NULL
                /\ errorFrom' = "none"
                /\ currentSummary' = ""
                /\ pipes' = summarizing
                /\ UNCHANGED <<step, currentIndex, currentRating, skippedIdx>>
    /\ UNCHANGED <<issues, scores, loading, error, sess, commitLog, verdict, csv>>

\* generateSummaryForIssue after await fetch(comments_url) (lines 458-473, 475-482)
commentsResponse(p, resp) ==
    /\ p \in pipes /\ p.pc = "comments"
    /\ LET out == commentsOutcome(resp)
           rest == pipes \ {p}
       IN  IF out.ok
           THEN /\ pipes' = rest \cup {[p EXCEPT !.pc = "gemini", !.attempts = 1,
                                                 !.checkFailed = FALSE,
                                                 !.comments = out.comments]}
                /\ UNCHANGED <<summaryError, errorFrom, isSummarizing>>
           ELSE /\ pipes' = rest
                /\ IF Crashed THEN UNCHANGED <<summaryError, errorFrom, isSummarizing>>
                   ELSE /\ summaryError' = SUMMARY_ERROR
                        /\ errorFrom' = "comments"
                        /\ isSummarizing' = FALSE
    /\ UNCHANGED <<step, issues, currentIndex, currentSummary, isCheckingPr, scores,
                   loading, error, currentRating, sess, skippedIdx, commitLog, verdict, csv>>

\* fetchGeminiSummary after await fetch(apiUrl) (lines 94-110) and, when it returns or
\* throws, the rest of generateSummaryForIssue (lines 474-482)
geminiResponse(p, resp) ==
    /\ p \in pipes /\ p.pc = "gemini"
    /\ LET r == geminiAttempt(resp)
           rest == pipes \ {p}
       IN  IF r.ok
           THEN /\ pipes' = rest
                /\ IF Crashed THEN UNCHANGED <<currentSummary, summaryError, errorFrom, isSummarizing>>
                   ELSE /\ currentSummary' = r.value
                        /\ isSummarizing' = FALSE
                        /\ UNCHANGED <<summaryError, errorFrom>>
           ELSE IF geminiGivesUp(p.retries)
           THEN /\ pipes' = rest
                /\ IF Crashed THEN UNCHANGED <<currentSummary, summaryError, errorFrom, isSummarizing>>
                   ELSE /\ summaryError' = SUMMARY_ERROR
                        /\ errorFrom' = "summarizer"
                        /\ isSummarizing' = FALSE
                        /\ UNCHANGED currentSummary
           ELSE /\ pipes' = rest \cup {[p EXCEPT !.pc = "sleep"]}
                /\ UNCHANGED <<currentSummary, summaryError, errorFrom, isSummarizing>>
    /\ UNCHANGED <<step, issues, currentIndex, isCheckingPr, scores, loading, error,
                   currentRating, sess, skippedIdx, commitLog, verdict, csv>>

\* the delay fetchGeminiSummary sleeps after a failure with the given retries
\* (delays[retries]; setTimeout takes an undefined delay as 0)
backoffDelay(retries) ==
    IF retries + 1 \in DOMAIN delays THEN delays[retries + 1] ELSE 0

\* fetchGeminiSummary after its setTimeout (lines 109-112, 92-94): retries++, then the
\* next attempt while retries <= maxRetries (otherwise the loop ends and the call
\* returns undefined, which generateSummaryForIssue shows as "")
timerFires(p) ==
    /\ p \in pipes /\ p.pc = "sleep"
    /\ LET rest == pipes \ {p}
           q == [p EXCEPT !.retries = p.retries + 1,
                          !.waits = Append(p.waits, backoffDelay(p.retries))]
       IN  IF q.retries <= maxRetries
           THEN /\ pipes' = rest \cup {[q EXCEPT !.pc = "gemini", !.attempts = p.attempts + 1]}
                /\ UNCHANGED <<currentSummary, isSummarizing>>
           ELSE /\ pipes' = rest
                /\ IF Crashed THEN UNCHANGED <<currentSummary, isSummarizing>>
                   ELSE /\ currentSummary' = ""
                        /\ isSummarizing' = FALSE
    /\ UNCHANGED <<step, issues, currentIndex, isCheckingPr, summaryError, errorFrom, scores,
                   loading, error, currentRating, sess, skippedIdx, commitLog, verdict, csv>>

(***************************************************************************)
(* The session specification.                                              *)
(***************************************************************************)
\* the steps of the program, the search responses drawn from the set responses
NextOn(responses) ==
    \/ \E url \in RepoUrls : handleFetchIssues(url)
    \/ \E resp \in responses : fetchResponse(resp)
    \/ \E v \in RateInputs : setRating("ambiguity", v)
    \/ \E f \in {"scale", "novelty"} : setRating(f, "1")
    \/ \E v \in TypeInputs : setRating("type", v)
    \/ handleNext
    \/ confirmExit
    \/ confirmFinish
    \/ startNewSession
    \/ \E p \in pipes : \E resp \in TimelineResponses : prResponse(p, resp)
    \/ \E p \in pipes : \E resp \in CommentsResponses : commentsResponse(p, resp)
    \/ \E p \in pipes : \E resp \in GeminiResponses : geminiResponse(p, resp)
    \/ \E p \in pipes : timerFires(p)

Next == NextOn(SearchResponses)

Spec == Init /\ [][Next]_vars

(***************************************************************************)
(* The session under fairness: every request in flight is answered (with   *)
(* a result or a failure), every backoff timer fires, and the operator,    *)
(* while triaging, fills each empty field of the draft and clicks Next     *)
(* Issue if the button is enabled again and again.                         *)
(***************************************************************************)
\* the operator sets a field of the draft that is still empty
fillField(f) ==
    /\ currentRating[f] = ""
    /\ \E v \in (IF f = "type" THEN TypeInputs ELSE RateInputs) : setRating(f, v)

Fairness ==
    /\ WF_vars(\E resp \in SearchResponses : fetchResponse(resp))
    /\ WF_vars(\E p \in pipes : \E resp \in TimelineResponses : prResponse(p, resp))
    /\ WF_vars(\E p \in pipes : \E resp \in CommentsResponses : commentsResponse(p, resp))
    /\ WF_vars(\E p \in pipes : \E resp \in GeminiResponses : geminiResponse(p, resp))
    /\ WF_vars(\E p \in pipes : timerFires(p))
    /\ \A f \in {"ambiguity", "scale", "novelty", "type"} : WF_vars(fillField(f))
    /\ SF_vars(handleNext)

SpecLive == Init /\ [][Next]_vars /\ Fairness

(***************************************************************************)
(* A session whose batch repeats an issue number: the state right after    *)
(* the first search response, with such a list as its items, was handled   *)
(* (fetchResponse from Init).                                              *)
(***************************************************************************)
InitRecommit ==
    /\ step = "triage"
    /\ issues \in RepeatLists
    /\ currentIndex = 0
    /\ currentSummary = ""
    /\ isSummarizing = FALSE
    /\ isCheckingPr = TRUE
    /\ summaryError = NULL
    /\ scores = NoScores
    /\ loading = FALSE
    /\ error = NULL
    /\ currentRating = EMPTY_RATING
    /\ pipes = {newPipe(1, 0, issues)}
    /\ sess = 1
    /\ skippedIdx = {}
    /\ commitLog = <<>>
    /\ errorFrom = "none"
    /\ verdict = "none"
    /\ csv = NoFile

SpecRecommit == InitRecommit /\ [][Next]_vars

(***************************************************************************)
(* The report: a session whose batch is out of number order, in the state  *)
(* right after the first search response was handled (fetchResponse from   *)
(* Init), with the download of the Complete step as a step.                *)
(***************************************************************************)
InitExport ==
    /\ step = "triage"
    /\ issues \in UnorderedLists
    /\ currentIndex = 0
    /\ currentSummary = ""
    /\ isSummarizing = FALSE
    /\ isCheckingPr = TRUE
    /\ summaryError = NULL
    /\ scores = NoScores
    /\ loading = FALSE
    /\ error = NULL
    /\ currentRating = EMPTY_RATING
    /\ pipes = {newPipe(1, 0, issues)}
    /\ sess = 1
    /\ skippedIdx = {}
    /\ commitLog = <<>>
    /\ errorFrom = "none"
    /\ verdict = "none"
    /\ csv = NoFile

NextExport ==
    \/ Next
    \/ handleDownloadCSV

SpecExport == InitExport /\ [][NextExport]_vars

(***************************************************************************)
(* A session close to its target: a batch of TARGET_ISSUE_COUNT + 1 issues *)
(* was fetched, the operator has committed fully scored ratings for all    *)
(* but the last three, and the pipeline of the next issue awaits its PR    *)
(* check.                                                                  *)
(***************************************************************************)
LongBatch == [i \in 1..(TARGET_ISSUE_COUNT + 1) |-> MkIssue(i)]
FullRating == [ambiguity |-> "1", scale |-> "1", novelty |-> "1", type |-> "fix"]

InitTarget ==
    /\ step = "triage"
    /\ issues = LongBatch
    /\ currentIndex = TARGET_ISSUE_COUNT - 2
    /\ currentSummary = ""
    /\ isSummarizing = FALSE
    /\ isCheckingPr = TRUE
    /\ summaryError = NULL
    /\ scores = [n \in 1..(TARGET_ISSUE_COUNT - 2) |-> newEntry(FullRating, MkIssue(n))]
    /\ loading = FALSE
    /\ error = NULL
    /\ currentRating = EMPTY_RATING
    /\ pipes = {newPipe(1, TARGET_ISSUE_COUNT - 2, LongBatch)}
    /\ sess = 1
    /\ skippedIdx = {}
    /\ commitLog = [i \in 1..(TARGET_ISSUE_COUNT - 2) |-> newEntry(FullRating, MkIssue(i))]
    /\ errorFrom = "none"
    /\ verdict = "none"
    /\ csv = NoFile

SpecTarget == InitTarget /\ [][Next]_vars

(***************************************************************************)
(* The score validator on its own: every rating over the full value sets.  *)
(***************************************************************************)
AllRatings ==
    [ambiguity : RATING_OPTIONS \cup {""}, scale : RATING_OPTIONS \cup {""},
     novelty : RATING_OPTIONS \cup {""}, type : ISSUE_TYPES \cup {""}]

InitValidator ==
    /\ step = "input"
    /\ issues = <<>>
    /\ currentIndex = 0
    /\ currentSummary = ""
    /\ isSummarizing = FALSE
    /\ isCheckingPr = FALSE
    /\ summaryError = NULL
    /\ scores = NoScores
    /\ loading = FALSE
    /\ error = NULL
    /\ currentRating \in AllRatings
    /\ pipes = {}
    /\ sess = 0
    /\ skippedIdx = {}
    /\ commitLog = <<>>
    /\ errorFrom = "none"
    /\ verdict = "none"
    /\ csv = NoFile

\* isValidScore(s) ? "Yes" : "No" (line 537), applied to the rating drawn
validate ==
    /\ verdict = "none"
    /\ verdict' = IF isValidScore(currentRating) THEN "Yes" ELSE "No"
    /\ UNCHANGED <<step, issues, currentIndex, currentSummary, isSummarizing, isCheckingPr,
                   summaryError, errorFrom, scores, loading, error, currentRating, pipes, sess,
                   skippedIdx, commitLog, csv>>

NextValidator == validate

SpecValidator == InitValidator /\ [][NextValidator]_vars

(***************************************************************************)
(* Properties.                                                             *)
(***************************************************************************)
AllowedMoves ==
    {<<"Input", "Fetching">>, <<"Fetching", "Triage">>, <<"Fetching", "Input">>,
     <<"Triage", "Input">>, <<"Triage", "Complete">>, <<"Complete", "Input">>}

\* C1: every change of the session phase is one of Input->Fetching, Fetching->Triage,
\* Fetching->Input, Triage->Input, Triage->Complete, Complete->Input; in particular
\* the phase never changes from Input directly to Complete.
C1_PhaseMoves == [][Phase' # Phase => <<Phase, Phase'>> \in AllowedMoves]_vars

\* the count of fully scored entries, written out
fullyScored(sc) ==
    Cardinality({n \in DOMAIN sc : /\ sc[n].ambiguity \in {"1", "2", "3", "4", "5"}
                                   /\ sc[n].scale \in {"1", "2", "3", "4", "5"}
                                   /\ sc[n].novelty \in {"1", "2", "3", "4", "5"}})

\* a step that commits a rating
CommitStep == commitLog' # commitLog /\ commitLog' # <<>>

\* a step in which the PR check of the current issue of the session in progress returns
\* true (the closure ends without going on to summarize)
OwnSkipStep ==
    \E p \in pipes : /\ p.pc = "pr" /\ live(p) /\ p.idx = currentIndex
                     /\ p \notin pipes'
                     /\ \A q \in pipes' \ pipes : q.pc # "comments"

\* a step that changes nothing but step: the confirmed early finish
EarlyFinishStep ==
    /\ step = "triage" /\ step' = "complete"
    /\ UNCHANGED <<issues, currentIndex, currentSummary, isSummarizing, isCheckingPr,
                   summaryError, errorFrom, scores, loading, error, currentRating, pipes, sess>>

\* C2: the session reaches Complete exactly when the count of valid entries is >= 15,
\* or a commit or a PR-liveness skip happens at the last index of the session in
\* progress, or the operator finishes early; an exit never leads to Complete.
C2_CompleteOnlyWhen ==
    [][(step # "complete" /\ step' = "complete") =>
         /\ step = "triage"
         /\ \/ CommitStep /\ fullyScored(scores') >= 15
            \/ currentIndex = Len(issues) - 1 /\ (CommitStep \/ OwnSkipStep)
            \/ EarlyFinishStep]_vars

\* C3: advancing commits the draft first and recomputes the valid count over the
\* scores including the new entry; then, if that count is >= 15 the phase becomes
\* Complete and the index is not advanced, even if unprocessed issues remain;
\* otherwise, if currentIndex is not the last index, the index increases by exactly
\* one and the phase stays Triage; otherwise the phase becomes Complete.
C3_AdvanceRule ==
    [][CommitStep =>
         LET cur == issues[currentIndex + 1]
         IN  /\ DOMAIN scores' = DOMAIN scores \cup {cur.number}
             /\ scores'[cur.number].ambiguity = currentRating.ambiguity
             /\ scores'[cur.number].scale = currentRating.scale
             /\ scores'[cur.number].novelty = currentRating.novelty
             /\ scores'[cur.number].type = currentRating.type
             /\ IF fullyScored(scores') >= 15
                THEN step' = "complete" /\ currentIndex' = currentIndex
                ELSE IF currentIndex # Len(issues) - 1
                THEN step' = "triage" /\ currentIndex' = currentIndex + 1
                ELSE step' = "complete"]_vars

\* the target was reached by a commit while an unprocessed issue remains
C3_Witness ==
    /\ step = "complete"
    /\ fullyScored(scores) >= 15
    /\ Len(commitLog) = 15
    /\ currentIndex < Len(issues) - 1

\* no entry is kept for an issue of the session in progress whose PR check returned true
SkippedNeverScored ==
    \A i \in skippedIdx : i < Len(issues) => issues[i + 1].number \notin DOMAIN scores

\* C4: an issue whose PR-liveness check returns true is skipped: no ScoreEntry keyed by
\* its number is ever created during the session, and the session proceeds directly
\* to index i+1 if it exists (starting that issue's pipeline) or to Complete if i is
\* the last index.
C4_SkipRule ==
    [][/\ SkippedNeverScored'
       /\ \A p \in pipes :
            (/\ step = "triage" /\ ~Crashed
             /\ p.pc = "pr" /\ live(p)
             /\ p \notin pipes' /\ \A q \in pipes' \ pipes : q.pc # "comments")
            => IF p.idx < Len(issues) - 1
               THEN /\ step' = "triage"
                    /\ currentIndex' = p.idx + 1
                    /\ newPipe(sess, p.idx + 1, issues) \in pipes'
               ELSE step' = "complete"]_vars

OneToFive == {"1", "2", "3", "4", "5"}

\* C5: for every rating over {"", "x", "1".."5"} x type, isValidScore is true iff
\* ambiguity, scale and novelty are each one of "1".."5"; any of the three equal to
\* "x" (or unset) makes it false, and the type never changes the result.
C5_ValidIff ==
    verdict # "none" =>
        /\ verdict \in {"Yes", "No"}
        /\ (verdict = "Yes") <=> /\ currentRating.ambiguity \in OneToFive
                                 /\ currentRating.scale \in OneToFive
                                 /\ currentRating.novelty \in OneToFive
        /\ (\E f \in {"ambiguity", "scale", "novelty"} : currentRating[f] \in {"x", ""})
              => verdict = "No"
        /\ \A t \in ISSUE_TYPES \cup {""} :
              isValidScore([currentRating EXCEPT !.type = t]) = (verdict = "Yes")

\* a rating with a single "x" was judged
C5_Witness ==
    /\ verdict = "No"
    /\ currentRating.ambiguity = "5" /\ currentRating.scale = "3"
    /\ currentRating.novelty = "x" /\ currentRating.type = "feat"

\* C6: committing a rating for the same issue number N twice leaves exactly one
\* ScoreEntry for N in the score mapping, equal to the second commit; entries for
\* other issue numbers are unchanged by either commit. Stated for every commit: after
\* it the mapping holds under N the entry just committed (whatever was there before),
\* its keys are the old keys and N, and every other key keeps its entry.
C6_Overwrite ==
    [][CommitStep =>
         LET last == commitLog'[Len(commitLog')]
             N == last.issueNumber
         IN  /\ N = issues[currentIndex + 1].number
             /\ Len(commitLog') = Len(commitLog) + 1
             /\ DOMAIN scores' = DOMAIN scores \cup {N}
             /\ scores'[N] = last
             /\ scores'[N].ambiguity = currentRating.ambiguity
             /\ scores'[N].scale = currentRating.scale
             /\ scores'[N].novelty = currentRating.novelty
             /\ scores'[N].type = currentRating.type
             /\ \A n \in DOMAIN scores \ {N} : scores'[n] = scores[n]]_vars

\* an issue number was committed twice with different ratings after another number
\* was committed: one entry for it, the second commit, and the other entry as committed
C6_Witness ==
    \E k, i, j \in 1..Len(commitLog) :
        /\ k < i /\ i < j
        /\ commitLog[i].issueNumber = commitLog[j].issueNumber
        /\ commitLog[k].issueNumber # commitLog[j].issueNumber
        /\ commitLog[i] # commitLog[j]
        /\ DOMAIN scores = {commitLog[k].issueNumber, commitLog[j].issueNumber}
        /\ scores[commitLog[j].issueNumber] = commitLog[j]
        /\ scores[commitLog[k].issueNumber] = commitLog[k]

\* the sum of a sequence of waits
RECURSIVE totalDelay(_)
totalDelay(w) == IF w = <<>> THEN 0 ELSE w[1] + totalDelay(Tail(w))

\* the request of a summarizer call is in flight, or the call sleeps between attempts
inSummarizer(q) == q.pc \in {"gemini", "sleep"}

\* C7: one summarizer call makes at most 4 attempts (1 initial + 3 retries); a new
\* attempt is made only after a failed one (non-2xx, transport error or unparsable
\* body), the waits before attempts 2, 3 and 4 are 1000, 2000 and 4000 ms in that
\* order, and the call returns the value of the first successful attempt without
\* further attempts; so a call that succeeds on attempt 4 returns the success value
\* after a total delay of at least 7000 ms.
C7_RetryPolicy ==
    [][/\ \A q \in pipes' :
            inSummarizer(q) =>
              /\ q.attempts \in 1..4
              /\ Len(q.waits) = q.attempts - 1
              /\ \A i \in 1..Len(q.waits) : q.waits[i] = <<1000, 2000, 4000>>[i]
              /\ q.attempts = 4 => totalDelay(q.waits) >= 7000
       /\ \A p \in pipes \ pipes' : \A resp \in GeminiResponses :
            geminiResponse(p, resp) =>
              IF resp.kind = "ok"
              THEN /\ pipes' = pipes \ {p}
                   /\ ~Crashed =>
                        /\ currentSummary' = IF resp.text # "" THEN resp.text
                                             ELSE "Could not generate summary."
                        /\ summaryError' = summaryError
                        /\ isSummarizing' = FALSE
              ELSE IF p.attempts < 4
              THEN /\ pipes' = (pipes \ {p}) \cup {[p EXCEPT !.pc = "sleep"]}
                   /\ currentSummary' = currentSummary
              ELSE pipes' = pipes \ {p}
       /\ \A q \in pipes' \ pipes :
            /\ (q.pc = "gemini" /\ q.attempts > 1) =>
                  \E p \in pipes :
                     /\ p.pc = "sleep"
                     /\ pipes' = (pipes \ {p}) \cup {q}
                     /\ q.attempts = p.attempts + 1
                     /\ q.waits = Append(p.waits, <<1000, 2000, 4000>>[p.attempts])
                     /\ q.issue = p.issue /\ q.comments = p.comments
            /\ q.pc = "sleep" =>
                  \E p \in pipes : \E resp \in GeminiResponses :
                     /\ resp.kind # "ok"
                     /\ geminiResponse(p, resp)
                     /\ q = [p EXCEPT !.pc = "sleep"]]_vars

\* attempts 1-3 of a call of the session in progress failed; attempt 4 is in flight
\* after waits of 1000, 2000 and 4000 ms
C7_Witness ==
    \E p \in pipes :
        /\ p.pc = "gemini" /\ p.attempts = 4
        /\ p.waits = <<1000, 2000, 4000>>
        /\ totalDelay(p.waits) = 7000
        /\ live(p) /\ ~Crashed /\ isSummarizing

\* C8: if all 4 summarizer attempts fail, the error reaches the pipeline, which sets
\* the summary-error placeholder and clears the summarizing flag while the phase stays
\* Triage and currentIndex and scores are unchanged; the operator can still commit a
\* complete rating for that issue: with the error shown, the Next Issue button is
\* enabled as soon as the rating is complete.
C8_FailedSummary ==
    [][/\ \A p \in pipes \ pipes' : \A resp \in GeminiResponses :
            (/\ resp.kind # "ok" /\ p.attempts = 4
             /\ step = "triage" /\ ~Crashed /\ live(p)
             /\ geminiResponse(p, resp))
            => /\ summaryError' = "Failed to generate summary. You may need to read the raw issue."
               /\ isSummarizing' = FALSE
               /\ Phase' = "Triage"
               /\ currentIndex' = currentIndex
               /\ scores' = scores
               /\ currentRating' = currentRating
               /\ p.idx = currentIndex =>
                    /\ ~isCheckingPr'
                    /\ isRatingComplete(currentRating') => nextEnabled'
       /\ (/\ summaryError' # NULL /\ step' = "triage" /\ ~Crashed'
           /\ ~isCheckingPr' /\ isRatingComplete(currentRating'))
          => nextEnabled']_vars

\* the summarizer of the current issue gave up, the placeholder is shown, the issue is
\* not committed yet and the Next Issue button is enabled
C8_Witness ==
    /\ errorFrom = "summarizer"
    /\ summaryError = SUMMARY_ERROR
    /\ ~isSummarizing
    /\ pipes = {}
    /\ nextEnabled
    /\ \A i \in 1..Len(commitLog) : commitLog[i].issueNumber # issues[currentIndex + 1].number

\* C9: any failure of the PR-liveness check (non-success status, transport error, or
\* unparsable response) yields false and never an error: the issue is treated as not
\* blocked, it is not skipped, and its summarization step is started.
C9_CheckFailsSafe ==
    [][\A p \in pipes \ pipes' : \A resp \in TimelineResponses :
         (resp.kind \in {"http", "transport", "badjson"} /\ prResponse(p, resp))
         => /\ checkForOpenPRs(resp) = FALSE
            /\ pipes' = (pipes \ {p}) \cup {[p EXCEPT !.pc = "comments",
                                                       !.checkFailed = TRUE]}
            /\ step' = step
            /\ currentIndex' = currentIndex
            /\ skippedIdx' = skippedIdx
            /\ error' = error
            /\ ~Crashed => /\ isSummarizing'
                           /\ ~isCheckingPr'
                           /\ summaryError' = NULL
                           /\ currentSummary' = ""]_vars

\* the check of the current issue has failed, the issue was not skipped and its
\* comments request is in flight
C9_Witness ==
    \E p \in pipes :
        /\ p.pc = "comments" /\ p.checkFailed /\ live(p) /\ p.idx = currentIndex
        /\ step = "triage" /\ ~Crashed
        /\ isSummarizing /\ ~isCheckingPr
        /\ p.idx \notin skippedIdx

\* C10: any failure of the comments fetch (non-success status or transport error)
\* degrades to an empty comment list: the summarizer is still called for that issue,
\* with a text built from title and body only, and the pipeline does not end in the
\* summary-error state because of the comment failure alone.
C10_CommentsDegrade ==
    [][\A p \in pipes \ pipes' : \A resp \in CommentsResponses :
         (resp.kind \in {"http", "transport"} /\ commentsResponse(p, resp))
         => /\ \E q \in pipes' \ pipes :
                 /\ pipes' = (pipes \ {p}) \cup {q}
                 /\ q.pc = "gemini" /\ q.attempts = 1
                 /\ q.issue = p.issue
                 /\ fullText(q.issue, q.comments) = fullText(p.issue, <<>>)
            /\ summaryError' = summaryError
            /\ errorFrom' # "comments"
            /\ isSummarizing' = isSummarizing]_vars

\* the search responses that make the fetch fail: a transport error, an unparsable
\* body, a non-success status or an empty list
FailureResponses ==
    {resp \in SearchResponses :
        resp.kind # "http" \/ resp.status # 200 \/ resp.items = <<>>}

C12_ExitDiscards ==
    [][confirmExit =>
         /\ Phase' \in {"Input", "Fetching"} /\ step' = "input"
         /\ issues' = <<>>
         /\ scores' = NoScores
         /\ currentIndex' = 0]_vars

\* C13: a confirmed early-finish moves the phase from Triage to Complete and leaves
\* the score mapping exactly as it was: every previously committed ScoreEntry is
\* retained unchanged and the draft rating of the current issue is not committed.
C13_EarlyFinish ==
    [][confirmFinish =>
         /\ Phase = "Triage" /\ Phase' = "Complete"
         /\ scores' = scores
         /\ \A n \in DOMAIN scores : n \in DOMAIN scores' /\ scores'[n] = scores[n]
         /\ DOMAIN scores' = DOMAIN scores
         /\ commitLog' = commitLog]_vars

\* the first session was finished early at its second issue: the first issue's entry
\* is kept, the second issue has a complete draft and no entry, and it was neither
\* committed nor skipped
C13_Witness ==
    /\ step = "complete" /\ sess = 1
    /\ Len(issues) = 2 /\ currentIndex = 1
    /\ Len(commitLog) = 1
    /\ DOMAIN scores = {issues[1].number}
    /\ scores[issues[1].number] = commitLog[1]
    /\ issues[2].number \notin DOMAIN scores
    /\ isRatingComplete(currentRating)
    /\ 1 \notin skippedIdx

\* the issues (by session and index) that have a request or a backoff sleep in flight
issuesInFlight == {<<p.sess, p.idx>> : p \in pipes}

\* C14: only one per-issue pipeline is active at a time: in every reachable state at
\* most one issue has a PR-liveness check, comments fetch or summarizer call
\* (including its backoff sleeps) in flight, for every interleaving of operator
\* advance / early-finish / exit / new-session actions with pending network calls.
C14_OnePipeline == Cardinality(issuesInFlight) <= 1

\* a closure started for an earlier index or an earlier session than the current one
abandoned(p) == p.sess # sess \/ p.idx # currentIndex

\* C15: the last started pipeline for the current index wins: once the pipeline for
\* the current index has started, a late-arriving response (summary text, summary
\* error, PR-check result, or clearing of the in-flight flags) from a pipeline started
\* for an earlier index or an earlier session never overwrites currentSummary,
\* summaryError, isSummarizing, isCheckingPr, currentIndex or the phase.
C15_LastStartedWins ==
    [][\A p \in pipes \ pipes' :
         (step = "triage" /\ ~Crashed /\ abandoned(p))
         => /\ currentSummary' = currentSummary
            /\ summaryError' = summaryError
            /\ isSummarizing' = isSummarizing
            /\ isCheckingPr' = isCheckingPr
            /\ currentIndex' = currentIndex
            /\ Phase' = Phase]_vars

\* C16: for each issue the pipeline steps run strictly in sequence: the comments fetch
\* and the summarizer call for an issue begin only after that issue's PR-liveness
\* check has completed, and only if it returned false; no summarization is ever
\* started for an issue whose check returned true.
C16_StepsInSequence ==
    [][/\ \A q \in pipes' \ pipes :
            /\ q.pc = "pr" => q.attempts = 0
            /\ q.pc = "comments" =>
                 \E p \in pipes \ pipes' : \E resp \in TimelineResponses :
                    /\ p.pc = "pr" /\ p.sess = q.sess /\ p.idx = q.idx /\ p.issue = q.issue
                    /\ prResponse(p, resp)
                    /\ ~checkForOpenPRs(resp)
                    /\ ~\E e \in 1..Len(resp.events) :
                          /\ resp.events[e].event = "cross-referenced"
                          /\ resp.events[e].pull_request
                          /\ resp.events[e].state = "open"
            /\ (q.pc = "gemini" /\ q.attempts = 1) =>
                 \E p \in pipes \ pipes' :
                    p.pc = "comments" /\ p.sess = q.sess /\ p.idx = q.idx /\ p.issue = q.issue
       /\ \A p \in pipes \ pipes' : \A resp \in TimelineResponses :
            (checkForOpenPRs(resp) /\ prResponse(p, resp))
            => \A q \in pipes' : q.sess = p.sess /\ q.idx = p.idx => q.pc = "pr" /\ q # p
       /\ \A q \in pipes' :
            (q.sess = sess' /\ issues' # <<>> /\ q.idx \in skippedIdx') => q.pc = "pr"]_vars

\* the check of the first issue returned true and the issue was skipped; the check of
\* the second returned false and its summarizer call is in flight
C16_Witness ==
    /\ step = "triage" /\ ~Crashed /\ sess = 1
    /\ skippedIdx = {0} /\ currentIndex = 1
    /\ pipes # {}
    /\ \A p \in pipes : p.idx = 1 /\ p.pc = "gemini" /\ p.attempts = 1 /\ live(p)

\* the position in the session's commits of the first commit for issue number n
firstCommit(n) ==
    CHOOSE i \in 1..Len(commitLog) :
        /\ commitLog[i].issueNumber = n
        /\ \A j \in 1..(i - 1) : commitLog[j].issueNumber # n

\* C17: the exported CSV consists of the fixed header row followed by exactly one row
\* per committed ScoreEntry, and the rows appear in the order in which the entries were
\* inserted into the score mapping (the order of their first commit), for any sequence
\* of issue numbers in the fetched list.
C17_RowsInInsertionOrder ==
    [][(csv' # csv /\ csv' # NoFile) =>
         /\ csv'[1] = <<"Issue Number", "Title", "URL", "Type", "Ambiguity", "Scale",
                        "Novelty", "Is Scored (Not X)">>
         /\ Len(csv') = 1 + Cardinality(DOMAIN scores)
         /\ {csv'[i][1] : i \in 2..Len(csv')} = DOMAIN scores
         /\ \A a, b \in 2..Len(csv') :
               a < b => firstCommit(csv'[a][1]) < firstCommit(csv'[b][1])]_vars

\* a title with each double-quote character doubled, built from its last character back
RECURSIVE doubled(_)
doubled(t) ==
    IF Len(t) = 0 THEN <<>>
    ELSE doubled(SubSeq(t, 1, Len(t) - 1))
         \o (IF t[Len(t)] = "\"" THEN <<"\"", "\"">> ELSE <<t[Len(t)]>>)

\* C18: in every exported CSV row the title field is wrapped in double quotes with
\* each internal double-quote character doubled, and the final column is "Yes" iff
\* isValidScore holds for that entry and "No" otherwise (so an entry with any "x" among
\* ambiguity/scale/novelty is marked "No" regardless of type).
C18_RowFields ==
    [][(csv' # csv /\ csv' # NoFile) =>
         \A i \in 2..Len(csv') :
            LET row == csv'[i]
                e == scores[row[1]]
                t == row[2]
            IN  /\ row[1] \in DOMAIN scores
                /\ Len(row) = 8
                /\ Len(t) >= 2 /\ t[1] = "\"" /\ t[Len(t)] = "\""
                /\ SubSeq(t, 2, Len(t) - 1) = doubled(e.title)
                /\ row[8] \in {"Yes", "No"}
                /\ (row[8] = "Yes") <=> /\ e.ambiguity \in OneToFive
                                        /\ e.scale \in OneToFive
                                        /\ e.novelty \in OneToFive
                /\ "x" \in {e.ambiguity, e.scale, e.novelty} => row[8] = "No"
                /\ row[5] = e.ambiguity /\ row[6] = e.scale /\ row[7] = e.novelty]_vars

\* a file was exported with a row for issue #1, whose title ends in a double quote and
\* whose ambiguity is "x", and a row for a fully scored issue
C18_Witness ==
    /\ csv # NoFile
    /\ \E i, j \in 2..Len(csv) :
          /\ csv[i][1] = 1
          /\ csv[i][2] = <<"\"", "q", "\"", "\"", "\"">>
          /\ csv[i][5] = "x" /\ csv[i][8] = "No"
          /\ csv[j][8] = "Yes"

\* C19: in every reachable state whose phase is Triage the issue list is non-empty and
\* currentIndex satisfies 0 <= currentIndex < length(issues), i.e. a current issue
\* always exists while triaging, for every interleaving of operator actions and
\* (possibly late) network responses.
C19_CurrentIssueExists ==
    Phase = "Triage" =>
        /\ issues # <<>>
        /\ 0 <= currentIndex
        /\ currentIndex < Len(issues)

\* the values a rating field can be set to, and the classification set
RatingValues == {"x", "1", "2", "3", "4", "5"}
TypeValues == {"feat", "fix", "docs", "style", "refactor", "perf", "test", "ci", "build",
               "chore", "revert"}

\* every field of the entry is set, and the entry is keyed by its own number
filledEntry(n, e) ==
    /\ e.ambiguity \in RatingValues
    /\ e.scale \in RatingValues
    /\ e.novelty \in RatingValues
    /\ e.type \in TypeValues
    /\ e.issueNumber = n

\* C20: a commit is possible only with a fully filled draft: every ScoreEntry in the
\* score mapping, in every reachable state, has ambiguity, scale and novelty each in
\* {"x","1","2","3","4","5"} and a type from the fixed classification set (none of the
\* four fields unset), and carries the number, title and URL of the issue that was
\* current when it was committed.
C20_FilledEntries ==
    [][/\ \A n \in DOMAIN scores' : filledEntry(n, scores'[n])
       /\ CommitStep =>
            LET cur == issues[currentIndex + 1]
                e == scores'[cur.number]
            IN  /\ currentRating.ambiguity # "" /\ currentRating.scale # ""
                /\ currentRating.novelty # "" /\ currentRating.type # ""
                /\ ~isCheckingPr
                /\ e.issueNumber = cur.number
                /\ e.title = cur.title
                /\ e.url = cur.html_url
                /\ e.ambiguity = currentRating.ambiguity /\ e.scale = currentRating.scale
                /\ e.novelty = currentRating.novelty /\ e.type = currentRating.type]_vars

\* the first issue was committed with an "x" and a type, and the second issue, whose
\* draft is still empty, is current
C20_Witness ==
    /\ step = "triage" /\ ~Crashed /\ currentIndex = 1
    /\ currentRating = EMPTY_RATING
    /\ DOMAIN scores = {issues[1].number}
    /\ scores[issues[1].number].ambiguity = "x"
    /\ scores[issues[1].number].type = "fix"
    /\ scores[issues[1].number].title = issues[1].title
    /\ scores[issues[1].number].url = issues[1].html_url

\* a step that resets the session: the confirmed exit or Start New Session
ResetStep == confirmExit \/ startNewSession

\* C21: between session resets (exit or new session) the score mapping only grows or
\* has entries overwritten: for every step that is not a reset, the set of issue
\* numbers with a ScoreEntry after the step is a superset of the set before it, and
\* only the commit step of the current issue changes the mapping.
C21_ScoresAccumulate ==
    [][~ResetStep =>
         /\ DOMAIN scores \subseteq DOMAIN scores'
         /\ scores' # scores =>
              /\ CommitStep
              /\ handleNext
              /\ step = "triage" /\ currentIndex < Len(issues)
              /\ DOMAIN scores' = DOMAIN scores \cup {issues[currentIndex + 1].number}
              /\ \A n \in DOMAIN scores :
                    n # issues[currentIndex + 1].number => scores'[n] = scores[n]]_vars

\* three commits of one session, the third for a number committed before: the mapping
\* grew twice and had one entry overwritten
C21_Witness ==
    /\ Len(commitLog) = 3
    /\ DOMAIN scores = {commitLog[1].issueNumber, commitLog[2].issueNumber}
    /\ commitLog[3].issueNumber = commitLog[2].issueNumber
    /\ scores[commitLog[1].issueNumber] = commitLog[1]
    /\ scores[commitLog[3].issueNumber] = commitLog[3]
    /\ commitLog[3] # commitLog[2]

\* index i of the session in progress was committed by the operator or skipped because
\* its own PR check returned true (sk, log: the skipped indices and the commits)
dealtWith(i, iss, sk, log) ==
    \/ i \in sk
    \/ \E k \in 1..Len(log) : log[k].issueNumber = iss[i + 1].number

\* C22: within one session the per-issue pipeline is started exactly once for each
\* index the session visits, in strictly ascending index order starting at 0, and
\* currentIndex changes only by +1; every issue at an index below currentIndex was
\* either committed by the operator or skipped because its own PR-liveness check
\* returned true (no issue is passed over for any other reason).
C22_VisitedInOrder ==
    [][/\ currentIndex' # currentIndex =>
            \/ currentIndex' = currentIndex + 1
            \/ sess' # sess /\ currentIndex' = 0
       /\ \A q \in pipes' \ pipes :
            q.pc = "pr" =>
              /\ q.sess = sess' /\ q.idx = currentIndex'
              /\ IF sess' # sess THEN q.idx = 0 ELSE q.idx = currentIndex + 1
              /\ \A p \in pipes' : (p.sess = q.sess /\ p.idx = q.idx) => p = q
       /\ (step' = "triage" /\ issues' # <<>>) =>
            \A i \in 0..(currentIndex' - 1) :
               i < Len(issues') => dealtWith(i, issues', skippedIdx', commitLog')]_vars

\* C23: under fairness (every network call eventually returns or fails, every backoff
\* timer eventually fires, and the operator eventually submits a complete rating
\* whenever advancing is enabled), every session that enters Triage eventually reaches
\* Complete or Input, after at most length(issues) commits and skips in total; no
\* failure of a PR check, comments fetch or summarizer call leaves the session stuck
\* in Triage.
C23_SessionEnds ==
    /\ [](step = "triage" => Len(commitLog) + Cardinality(skippedIdx) <= Len(issues))
    /\ (step = "triage") ~> (step \in {"complete", "input"})

\* the PR check of the current issue of the session in progress has not returned yet
ownCheckInFlight ==
    \E p \in pipes : p.pc = "pr" /\ p.sess = sess /\ p.idx = currentIndex /\ issues # <<>>

\* C24: a rating is never committed for an issue while that issue's own PR-liveness
\* check is still in flight: in every reachable state, including sessions started
\* after an exit or new-session while a check of an earlier session is still pending,
\* the advance action is enabled only after the check of the current issue has
\* returned.
C24_NoCommitDuringCheck ==
    (/\ step = "triage" /\ currentIndex < Len(issues)
     /\ currentRating.ambiguity # "" /\ currentRating.scale # ""
     /\ currentRating.novelty # "" /\ currentRating.type # ""
     /\ ~isCheckingPr)
    => ~ownCheckInFlight

\* C25: in every reachable state the number of valid ScoreEntries is at most 15
\* (TARGET_ISSUE_COUNT), and it is strictly less than 15 whenever the phase is Triage;
\* the number of ScoreEntries never exceeds currentIndex + 1 of the session they were
\* committed in.
C25_TargetBound ==
    /\ fullyScored(scores) <= 15
    /\ Phase = "Triage" => fullyScored(scores) < 15
    /\ Cardinality(DOMAIN scores) <= currentIndex + 1

\* the session ended at its last index with 15 valid entries and one entry with an "x":
\* 16 entries at currentIndex 15
C25_Witness ==
    /\ Phase = "Complete"
    /\ fullyScored(scores) = 15
    /\ Cardinality(DOMAIN scores) = 16
    /\ currentIndex = 15
    /\ \E n \in DOMAIN scores : scores[n].ambiguity = "x"

\* C26: no network call of the per-issue pipeline is started outside Triage: after the
\* phase has left Triage by exit or early-finish, no comments fetch and no summarizer
\* call is begun for an issue of the ended session, even if that issue's PR-liveness
\* check was in flight at the moment of leaving and returns afterwards.
C26_NoCallsOutsideTriage ==
    [][\A q \in pipes' \ pipes :
         q.pc \in {"comments", "gemini"} =>
            /\ Phase = "Triage"
            /\ q.sess = sess /\ issues # <<>>]_vars

====
